---- MODULE Spec2Model ----
(***************************************************************************)
(* Model of the 2-D geometry helpers of geolib/utils.py:                   *)
(*   polyline_z_at, top_of_polygon, bottom_of_polygon and                  *)
(*   polyline_polyline_intersections.                                      *)
(* Each helper is a pure function of its arguments.  A specification draws *)
(* the arguments of one helper in its initial states and its action(s)     *)
(* apply the helper and record the outcome of the call.                    *)
(*                                                                         *)
(* Numbers: coordinates are integers; the quotient computed by             *)
(* polyline_z_at is kept as an exact reduced fraction <<num, den>>, so the *)
(* rounding of Python floats is outside the model.                         *)
(***************************************************************************)
EXTENDS Integers, Sequences, FiniteSets, TLC

VARIABLES
    pc,             \* "ready" before the call of the helper, "done" after it
    points,         \* argument `points` (polyline_z_at, top/bottom_of_polygon)
    x,              \* argument `x` of polyline_z_at
    z,              \* outcome of polyline_z_at
    top,            \* outcome of top_of_polygon
    bottom,         \* outcome of bottom_of_polygon
    points_line1,   \* argument of polyline_polyline_intersections
    points_line2,   \* argument of polyline_polyline_intersections
    intersections,  \* what ls1.intersection(ls2) returned (shapely)
    result,         \* local `result`: the candidate points before the filter
    final           \* outcome of polyline_polyline_intersections

vars == <<pc, points, x, z, top, bottom, points_line1, points_line2,
          intersections, result, final>>

----------------------------------------------------------------------------
(* Bounds of the model *)

\* x coordinates of polyline / polygon points are 0..MaxX
MaxX == 2
\* y coordinates of polyline / polygon points are 0..MaxY
MaxY == 1
\* longest polyline given to polyline_z_at
MaxLineLen == 4
\* longest vertex sequence given to top_of_polygon / bottom_of_polygon
MaxPolyLen == 4

Pts == (0..MaxX) \X (0..MaxY)

RECURSIVE SeqsUpTo(_, _)
SeqsUpTo(S, n) ==
    IF n = 0 THEN {<< >>}
    ELSE LET shorter == SeqsUpTo(S, n - 1)
         IN  shorter \cup {Append(s, e) : s \in {t \in shorter : Len(t) = n - 1}, e \in S}

----------------------------------------------------------------------------
(* Outcomes of a call: a returned value or a raised exception *)

NoSeq == << >>
Pending == [kind |-> "pending", value |-> << >>, error |-> "none"]

Return(v) == [kind |-> "return", value |-> v, error |-> "none"]
Raise(e, dflt) == [kind |-> "raise", value |-> dflt, error |-> e]

----------------------------------------------------------------------------
(* Exact arithmetic for  y1 + (x - x1) / (x2 - x1) * (y2 - y1) *)

Abs(n) == IF n < 0 THEN -n ELSE n

RECURSIVE GCD(_, _)
GCD(a, b) == IF b = 0 THEN a ELSE GCD(b, a % b)

\* the fraction n/d (d # 0) in lowest terms with a positive denominator
Frac(n, d) ==
    LET g == GCD(Abs(n), Abs(d))
        s == IF d < 0 THEN -1 ELSE 1
    IN  <<(s * n) \div g, (s * d) \div g>>

FracMulInt(q, k) == Frac(q[1] * k, q[2])
IntAddFrac(k, q) == Frac(k * q[2] + q[1], q[2])

\* mutant: the slope is taken over the wrong end point
InterpolateFromEnd(x1, y1, x2, y2, xq) ==
    IF x2 - x1 = 0
    THEN Raise("ZeroDivisionError", <<0, 1>>)
    ELSE Return(IntAddFrac(y2, FracMulInt(Frac(xq - x1, x2 - x1), y2 - y1)))

\* line 158: y1 + (x - x1) / (x2 - x1) * (y2 - y1); the division raises
\* ZeroDivisionError when x2 - x1 is zero
Interpolate(x1, y1, x2, y2, xq) ==
    IF x2 - x1 = 0
    THEN Raise("ZeroDivisionError", <<0, 1>>)
    ELSE Return(IntAddFrac(y1, FracMulInt(Frac(xq - x1, x2 - x1), y2 - y1)))

\* lines 154-161: scan of the consecutive pairs from pair i = (i-1, i) on
RECURSIVE ZScan(_, _, _)
ZScan(pts, xq, i) ==
    IF i > Len(pts)
    THEN Raise("ValueError", <<0, 1>>)
    ELSE LET x1 == pts[i - 1][1]
             y1 == pts[i - 1][2]
             x2 == pts[i][1]
             y2 == pts[i][2]
         IN  IF x1 <= xq /\ xq <= x2
             THEN Interpolate(x1, y1, x2, y2, xq)
             ELSE ZScan(pts, xq, i + 1)

\* mutant: a vertical bracketing pair is skipped instead of dividing by zero
RECURSIVE ZScanSkipVertical(_, _, _)
ZScanSkipVertical(pts, xq, i) ==
    IF i > Len(pts)
    THEN Raise("ValueError", <<0, 1>>)
    ELSE LET x1 == pts[i - 1][1]
             y1 == pts[i - 1][2]
             x2 == pts[i][1]
             y2 == pts[i][2]
         IN  IF x1 <= xq /\ xq <= x2 /\ x1 # x2
             THEN Interpolate(x1, y1, x2, y2, xq)
             ELSE ZScanSkipVertical(pts, xq, i + 1)

\* mutant: the bracket test is strict on the left (x1 < x)
RECURSIVE ZScanStrict(_, _, _)
ZScanStrict(pts, xq, i) ==
    IF i > Len(pts)
    THEN Raise("ValueError", <<0, 1>>)
    ELSE LET x1 == pts[i - 1][1]
             y1 == pts[i - 1][2]
             x2 == pts[i][1]
             y2 == pts[i][2]
         IN  IF x1 < xq /\ xq <= x2
             THEN Interpolate(x1, y1, x2, y2, xq)
             ELSE ZScanStrict(pts, xq, i + 1)

polyline_z_at_skip_vertical(pts, xq) == ZScanSkipVertical(pts, xq, 2)
polyline_z_at_strict(pts, xq) == ZScanStrict(pts, xq, 2)

\* lines 153-161
polyline_z_at(pts, xq) == ZScan(pts, xq, 2)

----------------------------------------------------------------------------
(* Specification of polyline_z_at *)

Idle ==
    /\ top = Pending /\ bottom = Pending
    /\ points_line1 = NoSeq /\ points_line2 = NoSeq
    /\ intersections = [kind |-> "none", geoms |-> << >>]
    /\ result = NoSeq /\ final = Pending

\* the polyline of the documented examples, queried inside and outside
ExampleLine == << <<0, 0>>, <<10, 10>> >>
ExampleQueries == {5, 15}

InitZ ==
    /\ pc = "ready"
    /\ \/ points \in SeqsUpTo(Pts, MaxLineLen) /\ x \in (-1)..(MaxX + 1)
       \/ points = ExampleLine /\ x \in ExampleQueries
    /\ z = Pending
    /\ Idle

PolylineZAt ==
    /\ pc = "ready"
    /\ z' = polyline_z_at(points, x)
    /\ pc' = "done"
    /\ UNCHANGED <<points, x, top, bottom, points_line1, points_line2,
                   intersections, result, final>>

NextZ == PolylineZAt

SpecZ == InitZ /\ [][NextZ]_vars

----------------------------------------------------------------------------
(* Claims about polyline_z_at (checked under SpecZ) *)

\* pair i of a polyline is (points[i-1], points[i]), i in 2..Len(points)
Pairs == 2..Len(points)
Bracketing(i) == points[i - 1][1] <= x /\ x <= points[i][1]
Vertical(i) == points[i - 1][1] = points[i][1]
BracketingPairs == {i \in Pairs : Bracketing(i)}
Least(S) == CHOOSE i \in S : \A j \in S : i <= j

\* the fraction q equals y1 + (x - x1) / (x2 - x1) * (y2 - y1) on pair i
IsInterpolationOn(q, i) ==
    LET x1 == points[i - 1][1]
        y1 == points[i - 1][2]
        x2 == points[i][1]
        y2 == points[i][2]
    IN  /\ q[2] > 0
        /\ q[1] * (x2 - x1) = q[2] * (y1 * (x2 - x1) + (x - x1) * (y2 - y1))

ZDone == pc = "done" /\ z.kind # "pending"

\* C1 as stated: the first pair that brackets x AND is not vertical decides
\* the returned value (so an earlier vertical bracketing pair would be passed
\* over).
C1_AsStated ==
    ZDone =>
        LET S == {i \in BracketingPairs : ~Vertical(i)}
        IN  S # {} => z.kind = "return" /\ IsInterpolationOn(z.value, Least(S))

\* C1 (amended): when the first pair in sequence order that brackets x is not
\* vertical, polyline_z_at returns exactly y1 + (x-x1)/(x2-x1)*(y2-y1) of that
\* pair, whatever later bracketing pairs would give; [(0,0),(10,10)] at x = 5
\* gives 5.
C1_FirstBracketInterpolated ==
    ZDone =>
        /\ BracketingPairs # {} /\ ~Vertical(Least(BracketingPairs))
             => z.kind = "return"
                /\ IsInterpolationOn(z.value, Least(BracketingPairs))
        /\ points = ExampleLine /\ x = 5 => z = Return(<<5, 1>>)

\* a call whose first bracketing pair is sloped, gives a non-integer value, and
\* is followed by a later bracketing pair that interpolates to another value
C1_Witness ==
    /\ ZDone /\ z.kind = "return" /\ z.value[2] > 1
    /\ BracketingPairs # {} /\ ~Vertical(Least(BracketingPairs))
    /\ \E j \in BracketingPairs :
          /\ j > Least(BracketingPairs) /\ ~Vertical(j)
          /\ ~IsInterpolationOn(z.value, j)

\* C2: polyline_z_at ends in the out-of-range error (ValueError, no value)
\* exactly when no consecutive pair brackets x; this covers x outside the
\* x-extent, fewer than two points, and a strictly decreasing polyline with x
\* strictly inside its range.
OutOfRange == z.kind = "raise" /\ z.error = "ValueError"
StrictlyDecreasing == \A i \in Pairs : points[i - 1][1] > points[i][1]
AllXs == {points[i][1] : i \in 1..Len(points)}
C2_OutOfRangeIffNoBracket ==
    ZDone =>
        /\ OutOfRange <=> BracketingPairs = {}
        /\ Len(points) < 2 => OutOfRange
        /\ (\A v \in AllXs : x < v) \/ (\A v \in AllXs : x > v) => OutOfRange
        /\ Len(points) >= 2 /\ StrictlyDecreasing
             /\ points[Len(points)][1] < x /\ x < points[1][1] => OutOfRange
        /\ points = ExampleLine /\ x = 15 => OutOfRange

\* a strictly decreasing polyline of three points queried strictly inside
C2_Witness ==
    /\ ZDone /\ OutOfRange
    /\ Len(points) = 3 /\ StrictlyDecreasing
    /\ points[3][1] < x /\ x < points[1][1]

\* C3: when the first pair that brackets x is vertical (x1 = x2 = x) the call
\* ends in an error (the ZeroDivisionError of the division) and returns no
\* number, also when a later sloped pair brackets x.
C3_VerticalFirstBracketRaises ==
    ZDone =>
        (BracketingPairs # {} /\ Vertical(Least(BracketingPairs))
            => z.kind = "raise" /\ z.error = "ZeroDivisionError")

\* a vertical first bracketing pair followed by a sloped bracketing pair
C3_Witness ==
    /\ ZDone /\ z.kind = "raise"
    /\ BracketingPairs # {} /\ Vertical(Least(BracketingPairs))
    /\ \E j \in BracketingPairs : ~Vertical(j)

----------------------------------------------------------------------------
(* Helpers shared by the polygon extractors and the intersector *)

Min(S) == CHOOSE m \in S : \A n \in S : m <= n
Max(S) == CHOOSE m \in S : \A n \in S : m >= n

\* sorted(seq, key=lambda p: p[k]): a stable sort on coordinate k
RECURSIVE InsertBy(_, _, _)
InsertBy(s, e, k) ==
    IF s = << >> THEN <<e>>
    ELSE IF e[k] < Head(s)[k] THEN <<e>> \o s
    ELSE <<Head(s)>> \o InsertBy(Tail(s), e, k)

\* mutant: the sort is descending
RECURSIVE InsertByDescending(_, _, _)
InsertByDescending(s, e, k) ==
    IF s = << >> THEN <<e>>
    ELSE IF e[k] > Head(s)[k] THEN <<e>> \o s
    ELSE <<Head(s)>> \o InsertByDescending(Tail(s), e, k)

RECURSIVE SortedBy(_, _)
SortedBy(s, k) ==
    IF s = << >> THEN << >>
    ELSE InsertBy(SortedBy(SubSeq(s, 1, Len(s) - 1), k), s[Len(s)], k)

\* list.index(p): the first position of p (1-based here)
Index(s, p) == Min({i \in 1..Len(s) : s[i] = p})

\* s[::-1]
Reverse(s) == [i \in 1..Len(s) |-> s[Len(s) - i + 1]]

\* p in s
InSeq(p, s) == \E k \in 1..Len(s) : s[k] = p

\* [p for p in pts if p[0] == v]
WithX(pts, v) == SelectSeq(pts, LAMBDA p : p[1] = v)

----------------------------------------------------------------------------
(* top_of_polygon and bottom_of_polygon *)

\* mutant: the run is not wrapped when both indices are equal
top_of_polygon_ge(pts) ==
    IF pts = << >> THEN Raise("ValueError", << >>)
    ELSE
    LET left == Min({pts[i][1] : i \in 1..Len(pts)})
        lefts == SortedBy(WithX(pts, left), 2)
        topleft_point == lefts[Len(lefts)]
        right == Max({pts[i][1] : i \in 1..Len(pts)})
        rights == SortedBy(WithX(pts, right), 2)
        topright_point == rights[Len(rights)]
        idx_left == Index(pts, topleft_point)
        idx_right == Index(pts, topright_point)
    IN  IF idx_right >= idx_left
        THEN Return(SubSeq(pts, idx_left, idx_right))
        ELSE Return(SubSeq(pts, idx_left, Len(pts)) \o SubSeq(pts, 1, idx_right))

\* mutant: the lowest point of the left and right side is selected
top_of_polygon_lowest(pts) ==
    IF pts = << >> THEN Raise("ValueError", << >>)
    ELSE
    LET left == Min({pts[i][1] : i \in 1..Len(pts)})
        lefts == SortedBy(WithX(pts, left), 2)
        topleft_point == lefts[1]
        right == Max({pts[i][1] : i \in 1..Len(pts)})
        rights == SortedBy(WithX(pts, right), 2)
        topright_point == rights[1]
        idx_left == Index(pts, topleft_point)
        idx_right == Index(pts, topright_point)
    IN  IF idx_right > idx_left
        THEN Return(SubSeq(pts, idx_left, idx_right))
        ELSE Return(SubSeq(pts, idx_left, Len(pts)) \o SubSeq(pts, 1, idx_right))

\* lines 102-119; min() of an empty list raises ValueError
top_of_polygon(pts) ==
    IF pts = << >> THEN Raise("ValueError", << >>)
    ELSE
    LET left == Min({pts[i][1] : i \in 1..Len(pts)})
        lefts == SortedBy(WithX(pts, left), 2)
        topleft_point == lefts[Len(lefts)]
        right == Max({pts[i][1] : i \in 1..Len(pts)})
        rights == SortedBy(WithX(pts, right), 2)
        topright_point == rights[Len(rights)]
        idx_left == Index(pts, topleft_point)
        idx_right == Index(pts, topright_point)
    IN  IF idx_right > idx_left
        THEN Return(SubSeq(pts, idx_left, idx_right))
        ELSE Return(SubSeq(pts, idx_left, Len(pts)) \o SubSeq(pts, 1, idx_right))

\* mutant: the final reversal is missing
bottom_of_polygon_no_reverse(pts) ==
    IF pts = << >> THEN Raise("ValueError", << >>)
    ELSE
    LET left == Min({pts[i][1] : i \in 1..Len(pts)})
        bottomleft_point == SortedBy(WithX(pts, left), 2)[1]
        right == Max({pts[i][1] : i \in 1..Len(pts)})
        bottomright_point == SortedBy(WithX(pts, right), 2)[1]
        idx_left == Index(pts, bottomleft_point)
        idx_right == Index(pts, bottomright_point)
    IN  IF idx_left > idx_right
        THEN Return(SubSeq(pts, idx_right, idx_left))
        ELSE Return(SubSeq(pts, idx_right, Len(pts)) \o SubSeq(pts, 1, idx_left))

\* mutant: the run is taken from the left index to the right index
bottom_of_polygon_forward(pts) ==
    IF pts = << >> THEN Raise("ValueError", << >>)
    ELSE
    LET left == Min({pts[i][1] : i \in 1..Len(pts)})
        bottomleft_point == SortedBy(WithX(pts, left), 2)[1]
        right == Max({pts[i][1] : i \in 1..Len(pts)})
        bottomright_point == SortedBy(WithX(pts, right), 2)[1]
        idx_left == Index(pts, bottomleft_point)
        idx_right == Index(pts, bottomright_point)
    IN  IF idx_right > idx_left
        THEN Return(Reverse(SubSeq(pts, idx_left, idx_right)))
        ELSE Return(Reverse(SubSeq(pts, idx_left, Len(pts))
                            \o SubSeq(pts, 1, idx_right)))

\* lines 131-150
bottom_of_polygon(pts) ==
    IF pts = << >> THEN Raise("ValueError", << >>)
    ELSE
    LET left == Min({pts[i][1] : i \in 1..Len(pts)})
        bottomleft_point == SortedBy(WithX(pts, left), 2)[1]
        right == Max({pts[i][1] : i \in 1..Len(pts)})
        bottomright_point == SortedBy(WithX(pts, right), 2)[1]
        idx_left == Index(pts, bottomleft_point)
        idx_right == Index(pts, bottomright_point)
    IN  IF idx_left > idx_right
        THEN Return(Reverse(SubSeq(pts, idx_right, idx_left)))
        ELSE Return(Reverse(SubSeq(pts, idx_right, Len(pts))
                            \o SubSeq(pts, 1, idx_left)))

----------------------------------------------------------------------------
(* Specification of top_of_polygon and bottom_of_polygon: both are applied *)
(* to the same vertex sequence, in either order.                           *)

InitPoly ==
    /\ pc = "ready"
    /\ points \in SeqsUpTo(Pts, MaxPolyLen)
    /\ x = 0 /\ z = Pending
    /\ Idle

TopOfPolygon ==
    /\ top.kind = "pending"
    /\ top' = top_of_polygon(points)
    /\ pc' = IF bottom.kind = "pending" THEN "ready" ELSE "done"
    /\ UNCHANGED <<points, x, z, bottom, points_line1, points_line2,
                   intersections, result, final>>

BottomOfPolygon ==
    /\ bottom.kind = "pending"
    /\ bottom' = bottom_of_polygon(points)
    /\ pc' = IF top.kind = "pending" THEN "ready" ELSE "done"
    /\ UNCHANGED <<points, x, z, top, points_line1, points_line2,
                   intersections, result, final>>

NextPoly == TopOfPolygon \/ BottomOfPolygon

SpecPoly == InitPoly /\ [][NextPoly]_vars

----------------------------------------------------------------------------
(* Claims about top_of_polygon and bottom_of_polygon (checked under        *)
(* SpecPoly)                                                               *)

N == Len(points)
Vertices == {points[i] : i \in 1..N}
MinX == Min({p[1] : p \in Vertices})
MaxXOf == Max({p[1] : p \in Vertices})
LeftSide == {p \in Vertices : p[1] = MinX}
RightSide == {p \in Vertices : p[1] = MaxXOf}
Highest(S) == CHOOSE p \in S : \A q \in S : q[2] <= p[2]
Lowest(S) == CHOOSE p \in S : \A q \in S : q[2] >= p[2]
FirstIndexOf(p) == CHOOSE i \in 1..N :
                      points[i] = p /\ \A j \in 1..(i - 1) : points[j] # p

\* the vertices met walking forward from index a, `len` of them, going round
\* the end of the sequence
Walk(a, len) == [k \in 1..len |-> points[((a + k - 2) % N) + 1]]
IsReverseOf(s, t) ==
    Len(s) = Len(t) /\ \A k \in 1..Len(s) : s[k] = t[Len(t) - k + 1]

TopDone == top.kind # "pending" /\ N > 0
BottomDone == bottom.kind # "pending" /\ N > 0

\* C4: top_of_polygon takes L = highest point of the left side, R = highest
\* point of the right side, iL and iR their first indices, and returns
\* points[iL..iR] when iR > iL, else points[iL..end] followed by points[0..iR].
C4_TopRun ==
    TopDone =>
        LET iL == FirstIndexOf(Highest(LeftSide))
            iR == FirstIndexOf(Highest(RightSide))
        IN  /\ top.kind = "return"
            /\ top.value = IF iR > iL THEN Walk(iL, iR - iL + 1)
                           ELSE Walk(iL, (N - iL + 1) + iR)

\* a wrapped run: the right extreme comes before the left one in the
\* sequence, and both sides have two vertices to choose from
C4_Witness ==
    /\ TopDone /\ N >= 4
    /\ Cardinality(LeftSide) = 2 /\ Cardinality(RightSide) = 2
    /\ FirstIndexOf(Highest(RightSide)) < FirstIndexOf(Highest(LeftSide))
    /\ Len(top.value) = 2

\* C5: both extractors return a non-empty sequence whose first element is the
\* selected leftmost vertex and whose last element is the selected rightmost
\* vertex (highest on the side for top, lowest for bottom).
C5_LeftToRight ==
    /\ TopDone =>
        /\ top.kind = "return" /\ Len(top.value) > 0
        /\ top.value[1] = Highest(LeftSide)
        /\ top.value[Len(top.value)] = Highest(RightSide)
    /\ BottomDone =>
        /\ bottom.kind = "return" /\ Len(bottom.value) > 0
        /\ bottom.value[1] = Lowest(LeftSide)
        /\ bottom.value[Len(bottom.value)] = Lowest(RightSide)

\* both outputs computed for a sequence with distinct extremes on each side
C5_Witness ==
    /\ TopDone /\ BottomDone /\ MinX < MaxXOf
    /\ Len(top.value) > 2 /\ Len(bottom.value) > 2
    /\ Highest(LeftSide) # Lowest(LeftSide)

\* a vertex sequence traces its boundary clockwise when its signed area
\* (shoelace sum, y upwards) is negative
TwiceArea ==
    LET nxt(i) == (i % N) + 1
        term(i) == points[i][1] * points[nxt(i)][2]
                     - points[nxt(i)][1] * points[i][2]
        sum[i \in 0..N] == IF i = 0 THEN 0 ELSE sum[i - 1] + term(i)
    IN  sum[N]
Clockwise == N >= 3 /\ TwiceArea < 0
Distinct == \A i, j \in 1..N : i # j => points[i] # points[j]
UnitSquare == << <<0, 0>>, <<0, 1>>, <<1, 1>>, <<1, 0>> >>
Covered == \A p \in Vertices : InSeq(p, top.value) \/ InSeq(p, bottom.value)
SharedLeft == top.value[1] = bottom.value[1]
SharedRight == top.value[Len(top.value)] = bottom.value[Len(bottom.value)]

\* C6 as stated: for a clockwise polygon with pairwise distinct vertices the
\* two outputs cover every vertex and share their first and their last
\* element.
C6_AsStated ==
    TopDone /\ BottomDone /\ Clockwise /\ Distinct =>
        Covered /\ SharedLeft /\ SharedRight

\* C6 (amended): for a clockwise polygon with pairwise distinct vertices the
\* outputs share their first element exactly when one vertex only has the
\* minimum x, and their last element exactly when one vertex only has the
\* maximum x; when both hold every input vertex occurs in at least one of the
\* outputs.  For the unit square the outputs are [(0,1),(1,1)] and
\* [(0,0),(1,0)]: all four vertices are covered and no extreme is shared.
C6_CoverAndShare ==
    TopDone /\ BottomDone /\ Clockwise /\ Distinct =>
        /\ SharedLeft <=> Cardinality(LeftSide) = 1
        /\ SharedRight <=> Cardinality(RightSide) = 1
        /\ Cardinality(LeftSide) = 1 /\ Cardinality(RightSide) = 1 => Covered
        /\ points = UnitSquare =>
             /\ top.value = << <<0, 1>>, <<1, 1>> >>
             /\ bottom.value = << <<0, 0>>, <<1, 0>> >>
             /\ Covered /\ ~SharedLeft /\ ~SharedRight

\* both extractors applied to the clockwise unit square
C6_Witness ==
    TopDone /\ BottomDone /\ Clockwise /\ Distinct /\ points = UnitSquare

\* C10 as stated: bottom_of_polygon reverses the run from the index of L to
\* the index of R (wrapped when the index of R precedes the index of L; with
\* equal indices either reading is accepted).
C10_AsStated ==
    BottomDone =>
        LET iL == FirstIndexOf(Lowest(LeftSide))
            iR == FirstIndexOf(Lowest(RightSide))
        IN  /\ bottom.kind = "return"
            /\ IF iR < iL
               THEN IsReverseOf(bottom.value, Walk(iL, (N - iL + 1) + iR))
               ELSE IF iR > iL
               THEN IsReverseOf(bottom.value, Walk(iL, iR - iL + 1))
               ELSE \/ IsReverseOf(bottom.value, Walk(iL, 1))
                    \/ IsReverseOf(bottom.value, Walk(iL, N + 1))

\* C10 (amended): bottom_of_polygon takes L = lowest point of the left side,
\* R = lowest point of the right side, extracts the run of `points` from the
\* index of R to the index of L (wrapped round the end of the sequence unless
\* the index of L comes after the index of R) and returns its reverse.
C10_BottomRun ==
    BottomDone =>
        LET iL == FirstIndexOf(Lowest(LeftSide))
            iR == FirstIndexOf(Lowest(RightSide))
        IN  /\ bottom.kind = "return"
            /\ IsReverseOf(bottom.value,
                           IF iL > iR THEN Walk(iR, iL - iR + 1)
                           ELSE Walk(iR, (N - iR + 1) + iL))

\* a wrapped bottom run with a choice of lowest vertex on both sides
C10_Witness ==
    /\ BottomDone /\ N >= 4
    /\ Cardinality(LeftSide) = 2 /\ Cardinality(RightSide) = 2
    /\ FirstIndexOf(Lowest(LeftSide)) < FirstIndexOf(Lowest(RightSide))
    /\ Len(bottom.value) = 3

----------------------------------------------------------------------------
(* polyline_polyline_intersections *)

\* longest polyline given to polyline_polyline_intersections
MaxInterLen == 3

\* Vertices of the polylines given to the intersector: the corners and the
\* centre of a square.  Segments between these points meet only in points of
\* the integer grid or overlap in whole pieces, so the geometric intersection
\* of two such polylines is exactly representable with integer coordinates.
Corners == {0, 2} \X {0, 2}
Centre == <<1, 1>>
LineVertices == Corners \cup {Centre}

\* polylines of 2..n vertices without zero-length segments
RECURSIVE Polylines(_)
Polylines(n) ==
    IF n < 2 THEN {}
    ELSE IF n = 2
    THEN {<<a, b>> : a \in LineVertices, b \in LineVertices} \ 
         {<<a, a>> : a \in LineVertices}
    ELSE LET shorter == Polylines(n - 1)
             longest == {t \in shorter : Len(t) = n - 1}
         IN  shorter \cup
             UNION {{Append(t, e) : e \in LineVertices \ {t[Len(t)]}} : t \in longest}

\* the pieces of segment a-b between neighbouring grid points: a segment
\* between two corners is cut at its midpoint, a corner-centre segment is one
\* piece
Pieces(a, b) ==
    IF (a[1] + b[1]) % 2 = 0 /\ (a[2] + b[2]) % 2 = 0
    THEN LET m == <<(a[1] + b[1]) \div 2, (a[2] + b[2]) \div 2>>
         IN  {{a, m}, {m, b}}
    ELSE {{a, b}}
PiecesOf(line) == UNION {Pieces(line[i - 1], line[i]) : i \in 2..Len(line)}

\* the common pieces make up one straight segment a-b with no vertex of either
\* polyline inside it
OneSegment(common, line1, line2) ==
    \E a \in LineVertices, b \in LineVertices :
        /\ a # b /\ common = Pieces(a, b)
        /\ \A m \in (UNION common) \ {a, b} :
              ~InSeq(m, line1) /\ ~InSeq(m, line2)

\* lines 66-68: the values ls1.intersection(ls2) can have.  The point set is
\* the geometric intersection: the common pieces and the isolated common
\* points.  Its representation is shapely's: the order of the points of a
\* MultiPoint is not specified (every order is possible), and an overlap that
\* is more than one plain segment may come as one LineString or as a
\* MultiLineString.
ShapelyIntersection(line1, line2) ==
    LET common == PiecesOf(line1) \cap PiecesOf(line2)
        isolated == (UNION PiecesOf(line1) \cap UNION PiecesOf(line2))
                        \ UNION common
        k == Cardinality(isolated)
        orders == {g \in [1..k -> isolated] :
                      \A i, j \in 1..k : i # j => g[i] # g[j]}
    IN  IF common = {}
        THEN IF k = 0 THEN {[kind |-> "Empty", geoms |-> << >>]}
             ELSE IF k = 1 THEN {[kind |-> "Point", geoms |-> g] : g \in orders}
             ELSE {[kind |-> "MultiPoint", geoms |-> g] : g \in orders}
        ELSE IF k > 0 THEN {[kind |-> "GeometryCollection", geoms |-> << >>]}
        ELSE IF OneSegment(common, line1, line2)
        THEN {[kind |-> "LineString", geoms |-> << >>]}
        ELSE {[kind |-> "LineString", geoms |-> << >>],
              [kind |-> "MultiLineString", geoms |-> << >>]}

\* mutant: an overlapping segment is reported as unsupported
CandidatesLineStringRaises(inter) ==
    IF inter.kind = "Empty" THEN Return(<< >>)
    ELSE IF inter.kind = "MultiPoint" THEN Return(inter.geoms)
    ELSE IF inter.kind = "Point" THEN Return(<<inter.geoms[1]>>)
    ELSE Raise("ValueError", << >>)

\* lines 65-82: the candidate points `result`, or the ValueError of line 82
Candidates(inter) ==
    IF inter.kind = "Empty" THEN Return(<< >>)
    ELSE IF inter.kind = "MultiPoint" THEN Return(inter.geoms)
    ELSE IF inter.kind = "Point" THEN Return(<<inter.geoms[1]>>)
    ELSE IF inter.kind = "LineString" THEN Return(<< >>)
    ELSE Raise("ValueError", << >>)

\* mutant: what the comment of line 84 says, points on either line are dropped
KeepOffBoth(p, line1, line2) == ~InSeq(p, line1) /\ ~InSeq(p, line2)

\* line 85: not p in points_line1 or p in points_line2
Keep(p, line1, line2) == ~InSeq(p, line1) \/ InSeq(p, line2)

\* mutant: the result is returned in the order it was found
Unsorted(s) == s

\* line 90: sorted(final_result, key=lambda x: x[0])
SortedByX(s) == SortedBy(s, 1)

\* lines 85-90
FinalResult(cands, line1, line2) ==
    LET final_result == SelectSeq(cands, LAMBDA p : Keep(p, line1, line2))
    IN  IF Len(final_result) = 0 THEN << >> ELSE SortedByX(final_result)

----------------------------------------------------------------------------
(* Specification of polyline_polyline_intersections *)

InitInter ==
    /\ pc = "ready"
    /\ points = NoSeq /\ x = 0 /\ z = Pending
    /\ top = Pending /\ bottom = Pending
    /\ points_line1 \in Polylines(MaxInterLen)
    /\ points_line2 \in Polylines(MaxInterLen)
    /\ intersections = [kind |-> "none", geoms |-> << >>]
    /\ result = NoSeq /\ final = Pending

PolylinePolylineIntersections ==
    /\ pc = "ready"
    /\ \E inter \in ShapelyIntersection(points_line1, points_line2) :
          LET cands == Candidates(inter)
          IN  /\ intersections' = inter
              /\ result' = cands.value
              /\ final' = IF cands.kind = "raise" THEN cands
                          ELSE Return(FinalResult(cands.value, points_line1,
                                                  points_line2))
    /\ pc' = "done"
    /\ UNCHANGED <<points, x, z, top, bottom, points_line1, points_line2>>

NextInter == PolylinePolylineIntersections

SpecInter == InitInter /\ [][NextInter]_vars

----------------------------------------------------------------------------
(* Claims about polyline_polyline_intersections (checked under SpecInter) *)

InterDone == pc = "done" /\ final.kind # "pending"
Returned == InterDone /\ final.kind = "return"
Candidate == {result[i] : i \in 1..Len(result)}
Reported == {final.value[i] : i \in 1..Len(final.value)}

\* C7: whenever the intersector returns, the returned sequence is ascending
\* in x, whatever order the geometric intersection reported its points in.
C7_SortedByX ==
    Returned =>
        \A i \in 1..(Len(final.value) - 1) :
            final.value[i][1] <= final.value[i + 1][1]

\* a MultiPoint reported in descending x order, both points kept
C7_Witness ==
    /\ Returned /\ intersections.kind = "MultiPoint"
    /\ intersections.geoms[1][1] > intersections.geoms[2][1]
    /\ Len(final.value) = Len(intersections.geoms)

\* C8: empty intersection -> empty sequence; single point -> that point is
\* the candidate; several points -> all of them are candidates; overlapping
\* segment (LineString) -> empty sequence; any other kind -> the call fails
\* with the unsupported-type ValueError and returns nothing.
C8_KindToOutcome ==
    InterDone =>
        LET kind == intersections.kind
        IN  /\ kind = "Empty" => result = << >> /\ final = Return(<< >>)
            /\ kind = "Point" =>
                 final.kind = "return" /\ result = <<intersections.geoms[1]>>
            /\ kind = "MultiPoint" =>
                 final.kind = "return" /\ result = intersections.geoms
            /\ kind = "LineString" => result = << >> /\ final = Return(<< >>)
            /\ kind \notin {"Empty", "Point", "MultiPoint", "LineString"} =>
                 /\ final.kind = "raise" /\ final.error = "ValueError"
                 /\ final.value = << >>

\* two polylines that share a piece and also meet in an isolated point
C8_Witness ==
    /\ InterDone /\ intersections.kind = "GeometryCollection"
    /\ final.kind = "raise"

C8_SeenPoint == Returned /\ intersections.kind = "Point"
C8_SeenEmpty == Returned /\ intersections.kind = "Empty"
C8_SeenLineString == Returned /\ intersections.kind = "LineString"
C8_SeenMultiLineString == InterDone /\ intersections.kind = "MultiLineString"
C9_SeenCrossing ==
    /\ Returned /\ intersections.kind = "Point"
    /\ ~InSeq(intersections.geoms[1], points_line1)
    /\ ~InSeq(intersections.geoms[1], points_line2)
C9_SeenLine2Only ==
    /\ Returned
    /\ \E p \in Reported : ~InSeq(p, points_line1) /\ InSeq(p, points_line2)

====
